---- MODULE Spec2Model ----
(***************************************************************************)
(* Model of the account-history parser of package tdbank (client.go):      *)
(* ParseAccountHistory, ParseAccountBalance, the field handlers of         *)
(* DefaultHandlers and parseMoney.                                         *)
(*                                                                         *)
(* A text is a sequence of one-character strings.  The browser page is the *)
(* environment: the texts of the header cells, of the balance elements and *)
(* of each row's cells are chosen when the code reads them, and are kept   *)
(* in fieldNames, elems and rows so that properties can refer to them.     *)
(* Amounts are unbounded integers: every amount text of the model has far  *)
(* fewer than 19 digits, so neither the range error of strconv.ParseInt    *)
(* nor int64 wrap-around of the running balance can occur.                 *)
(***************************************************************************)
EXTENDS Integers, Sequences, FiniteSets, TLC

\* Largest number of data rows (rows after the header row) of the table.
MaxRows == 3

\* Largest length of the texts given to parseMoney on its own.
MaxLen == 3

-----------------------------------------------------------------------------
(* Texts *)

Digit == {"0", "1", "2", "3", "4", "5", "6", "7", "8", "9"}

DigitVal ==
  ("0" :> 0) @@ ("1" :> 1) @@ ("2" :> 2) @@ ("3" :> 3) @@ ("4" :> 4) @@
  ("5" :> 5) @@ ("6" :> 6) @@ ("7" :> 7) @@ ("8" :> 8) @@ ("9" :> 9)

\* unicode.IsSpace, restricted to the characters of the model
IsSpace(c) == c \in {" ", "\t", "\n"}

RECURSIVE TrimLeft(_)
TrimLeft(s) ==
  IF Len(s) > 0 /\ IsSpace(s[1]) THEN TrimLeft(Tail(s)) ELSE s

RECURSIVE TrimRight(_)
TrimRight(s) ==
  IF Len(s) > 0 /\ IsSpace(s[Len(s)])
    THEN TrimRight(SubSeq(s, 1, Len(s) - 1))
    ELSE s

\* strings.TrimSpace
TrimSpace(s) == TrimRight(TrimLeft(s))

\* strings.Contains
Contains(s, sub) ==
  \E k \in 0..(Len(s) - Len(sub)) : SubSeq(s, k + 1, k + Len(sub)) = sub

\* the value of a non-empty sequence of decimal digits
RECURSIVE DigitsValue(_)
DigitsValue(ds) ==
  IF Len(ds) = 0 THEN 0
  ELSE 10 * DigitsValue(SubSeq(ds, 1, Len(ds) - 1)) + DigitVal[ds[Len(ds)]]

AllDigits(s) == \A k \in 1..Len(s) : s[k] \in Digit

\* strconv.ParseInt(s, 10, 64): an optional sign, then one or more digits
ParseInt(s) ==
  LET signed == Len(s) > 0 /\ s[1] \in {"+", "-"}
      digits == IF signed THEN Tail(s) ELSE s
  IN  IF Len(digits) = 0 \/ ~AllDigits(digits)
        THEN [val |-> 0, ok |-> FALSE]
        ELSE [val |-> IF signed /\ s[1] = "-"
                        THEN 0 - DigitsValue(digits)
                        ELSE DigitsValue(digits),
              ok  |-> TRUE]

\* a plausible slip: the comma is not among the characters dropped
StripMoneyKeepingComma(s) == SelectSeq(s, LAMBDA c : c \notin {"$", "."})

\* the strings.Map call of parseMoney: drop every '$', ',' and '.'
StripMoney(s) == SelectSeq(s, LAMBDA c : c \notin {"$", ",", "."})

parseMoney(value) == ParseInt(StripMoney(value))

-----------------------------------------------------------------------------
(* Dates.  dateparse.ParseLocal is modelled on the numeric MM/DD/YYYY form *)
(* only; any other text is a parse error.  An instant is a day number.     *)

DayNumber(yyyy, mm, dd) == (yyyy * 12 + (mm - 1)) * 31 + (dd - 1)

\* the zero value of time.Time: January 1, year 1
ZeroTime == DayNumber(1, 1, 1)

ParseLocal(s) ==
  IF /\ Len(s) = 10
     /\ s[3] = "/" /\ s[6] = "/"
     /\ AllDigits(SubSeq(s, 1, 2))
     /\ AllDigits(SubSeq(s, 4, 5))
     /\ AllDigits(SubSeq(s, 7, 10))
     /\ DigitsValue(SubSeq(s, 1, 2)) \in 1..12
     /\ DigitsValue(SubSeq(s, 4, 5)) \in 1..31
    THEN [val |-> DayNumber(DigitsValue(SubSeq(s, 7, 10)),
                            DigitsValue(SubSeq(s, 1, 2)),
                            DigitsValue(SubSeq(s, 4, 5))),
          ok  |-> TRUE]
    ELSE [val |-> ZeroTime, ok |-> FALSE]

-----------------------------------------------------------------------------
(* Records and field handlers *)

\* HistoryRecord{}
ZeroRecord ==
  [Index |-> 0, Date |-> ZeroTime, Type |-> <<>>, Description |-> <<>>,
   Debit |-> 0, Credit |-> 0, Balance |-> 0]

\* A handler returns the record as it leaves it and whether it returned an
\* error.
DateFromString(record, value) ==
  LET r == ParseLocal(TrimSpace(value))
  IN  IF r.ok THEN [rec |-> [record EXCEPT !.Date = r.val], err |-> FALSE]
              ELSE [rec |-> record, err |-> TRUE]

TypeFromString(record, value) ==
  [rec |-> [record EXCEPT !.Type = TrimSpace(value)], err |-> FALSE]

DescriptionFromString(record, value) ==
  [rec |-> [record EXCEPT !.Description = TrimSpace(value)], err |-> FALSE]

DebitFromString(record, value) ==
  LET v == TrimSpace(value)
      r == parseMoney(v)
  IN  IF v = <<>> THEN [rec |-> record, err |-> FALSE]
      ELSE IF r.ok THEN [rec |-> [record EXCEPT !.Debit = r.val], err |-> FALSE]
      ELSE [rec |-> record, err |-> TRUE]

CreditFromString(record, value) ==
  LET v == TrimSpace(value)
      r == parseMoney(v)
  IN  IF v = <<>> THEN [rec |-> record, err |-> FALSE]
      ELSE IF r.ok THEN [rec |-> [record EXCEPT !.Credit = r.val], err |-> FALSE]
      ELSE [rec |-> record, err |-> TRUE]

BalanceFromString(record, value) ==
  LET v == TrimSpace(value)
      r == parseMoney(v)
  IN  IF v = <<>> THEN [rec |-> record, err |-> FALSE]
      ELSE IF r.ok THEN [rec |-> [record EXCEPT !.Balance = r.val], err |-> FALSE]
      ELSE [rec |-> record, err |-> TRUE]

\* Header texts
KeyDate == <<"D", "a", "t", "e">>
KeyType == <<"T", "y", "p", "e">>
KeyDescription == <<"D", "e", "s", "c", "r", "i", "p", "t", "i", "o", "n">>
KeyDebit == <<"D", "e", "b", "i", "t">>
KeyCredit == <<"C", "r", "e", "d", "i", "t">>
KeyBalance == <<"B", "a", "l", "a", "n", "c", "e">>
KeyAccountBalance == <<"A", "c", "c", "o", "u", "n", "t", " ">> \o KeyBalance

DefaultHandlers ==
  (KeyDate :> "DateFromString") @@
  (KeyType :> "TypeFromString") @@
  (KeyDescription :> "DescriptionFromString") @@
  (KeyDebit :> "DebitFromString") @@
  (KeyCredit :> "CreditFromString") @@
  (KeyAccountBalance :> "BalanceFromString")

\* the call method(&record, value)
Call(method, record, value) ==
  CASE method = "DateFromString" -> DateFromString(record, value)
    [] method = "TypeFromString" -> TypeFromString(record, value)
    [] method = "DescriptionFromString" -> DescriptionFromString(record, value)
    [] method = "DebitFromString" -> DebitFromString(record, value)
    [] method = "CreditFromString" -> CreditFromString(record, value)
    [] method = "BalanceFromString" -> BalanceFromString(record, value)


\* DefaultHandlers[field], as "method, found := DefaultHandlers[field]"
Found(field) == field \in DOMAIN DefaultHandlers

\* cells.At(j).Text(): a missing cell reads as the empty text (the error of
\* Text is discarded)
Text(cells, j) == IF j <= Len(cells) THEN cells[j] ELSE <<>>

\* a plausible slip: a column without handler is kept as the description
ColumnKeepingUnknown(record, field, value) ==
  IF ~Found(field) THEN DescriptionFromString(record, value).rec
  ELSE Call(DefaultHandlers[field], record, value).rec

\* One pass of the inner loop "for j := 0; j < m; j++", for column j: the
\* record after the column, whatever the handler returned.
Column(record, field, value) ==
  IF ~Found(field) THEN record
  ELSE Call(DefaultHandlers[field], record, value).rec

\* a plausible slip: the first handler error ends the row's loop
RECURSIVE ColumnsUntilError(_, _, _, _)
ColumnsUntilError(record, fieldNames, cells, j) ==
  IF j > Len(fieldNames) THEN record
  ELSE IF /\ Found(fieldNames[j])
          /\ Call(DefaultHandlers[fieldNames[j]], record, Text(cells, j)).err
    THEN record
    ELSE ColumnsUntilError(Column(record, fieldNames[j], Text(cells, j)),
                           fieldNames, cells, j + 1)

\* The inner loop from column j on.
RECURSIVE Columns(_, _, _, _)
Columns(record, fieldNames, cells, j) ==
  IF j > Len(fieldNames) THEN record
  ELSE Columns(Column(record, fieldNames[j], Text(cells, j)),
               fieldNames, cells, j + 1)

\* "record := HistoryRecord{}" and the inner loop
BuildRecord(fieldNames, cells) == Columns(ZeroRecord, fieldNames, cells, 1)

\* a plausible slip: the balance column is looked for by its exact key
HasBalanceExact(fieldNames) ==
  \E j \in 1..Len(fieldNames) : fieldNames[j] = KeyAccountBalance

\* the header loop: hasBalance
HasBalance(fieldNames) ==
  \E j \in 1..Len(fieldNames) : Contains(fieldNames[j], KeyBalance)

\* a plausible slip: the accumulator is advanced before it is stored
WithBalanceAdvanced(record, hasBal, bal) ==
  IF hasBal THEN record
  ELSE [record EXCEPT !.Balance = bal + record.Credit - record.Debit]

\* "record.Balance = balance" when the balance is reconstructed
WithBalance(record, hasBal, bal) ==
  IF hasBal THEN record ELSE [record EXCEPT !.Balance = bal]

\* "balance += record.Credit - record.Debit"
NextBalance(bal, record) == bal + record.Credit - record.Debit

\* a plausible slip: records are appended, keeping the source order
SaveInSourceOrder(record, hist) == Append(hist, record)

\* a plausible slip: a row without a date is not saved
SaveDated(record, hist) ==
  IF record.Date = ZeroTime THEN hist ELSE <<record>> \o hist

\* "history = append([]HistoryRecord{record}, history...)"
Save(record, hist) == <<record>> \o hist

\* a plausible slip: the date cursor is never advanced
NextDateStuck(date, recordDate) == date

\* "date = record.Date" of the index pass
NextDate(date, recordDate) == recordDate

\* the index pass from position k on, with the loop's index and date
RECURSIVE SetIndex(_, _, _, _)
SetIndex(hist, k, index, date) ==
  IF k > Len(hist) THEN hist
  ELSE IF hist[k].Date = date
    THEN SetIndex([hist EXCEPT ![k].Index = index + 1], k + 1, index + 1, date)
    ELSE SetIndex([hist EXCEPT ![k].Index = 1], k + 1, 1,
                  NextDate(date, hist[k].Date))

\* Errors
Nil == "nil"
ErrNoHistory == "No account history found in page"
ErrNoBalance == "Unable to find account balance in page"
ErrSyntax == "strconv.ParseInt: invalid syntax"

\* a plausible slip: the first matching element is read
BalanceElementFirst(elements) == elements[1]

\* which element of the selection ParseAccountBalance reads
BalanceElement(elements) == elements[Len(elements)]

ParseAccountBalance(elements) ==
  IF Len(elements) = 0 THEN [val |-> 0, err |-> ErrNoBalance]
  ELSE LET r == parseMoney(BalanceElement(elements))
       IN  IF r.ok THEN [val |-> r.val, err |-> Nil]
                   ELSE [val |-> 0, err |-> ErrSyntax]

-----------------------------------------------------------------------------
(* The pages the model reads *)

KeyMemo == <<"M", "e", "m", "o">>
KeyAvailableBalance ==
  <<"A", "v", "a", "i", "l", "a", "b", "l", "e", " ">> \o KeyBalance

Headers ==
  { <<>>,
    <<KeyDate>>,
    <<KeyDebit, KeyCredit>>,
    <<KeyDate, KeyDebit>>,
    <<KeyDate, KeyMemo, KeyCredit>>,
    <<KeyDate, KeyAccountBalance>>,
    <<KeyAccountBalance, KeyDebit>>,
    <<KeyDate, KeyBalance>>,
    <<KeyAvailableBalance>>,
    <<KeyMemo, KeyDebit>>,
    <<KeyType, KeyDescription>>,
    <<KeyDebit, KeyDebit>> }

DateTexts ==
  { <<"0", "1", "/", "0", "2", "/", "2", "0", "2", "3">>,
    <<" ", "0", "1", "/", "0", "3", "/", "2", "0", "2", "3", "\n">>,
    <<"n", "/", "a">> }

MoneyTexts ==
  { <<" ">>,
    <<"$", "1", ".", "5", "0">>,
    <<"-", "3">>,
    <<"1", "x">> }

WordTexts == { <<>>, <<" ", "A", "T", "M", " ">> }

MemoTexts == { <<"$", "9", ".", "9", "9">>, <<"0", "1", "/", "0", "2", "/", "2", "0", "2", "3">> }

CellTexts(field) ==
  CASE field = KeyDate -> DateTexts
    [] field \in {KeyType, KeyDescription} -> WordTexts
    [] field = KeyMemo -> MemoTexts
    [] OTHER -> MoneyTexts

AllTexts == DateTexts \cup MoneyTexts \cup WordTexts \cup MemoTexts

\* the rows a table with these header cells may show: one text per column,
\* or a row without cells
RowChoices(fieldNames) ==
  { cells \in [1..Len(fieldNames) -> AllTexts] :
      \A j \in 1..Len(fieldNames) : cells[j] \in CellTexts(fieldNames[j]) }
  \cup { <<>> }

\* the texts of the elements AccountBalanceSelector matches
BalancePages ==
  { <<>>,
    <<<<"1", "x">>>>,
    <<<<"$", "1", ".", "5", "0">>, <<"$", "1", ",", "0", "0", "0", ".", "0", "0">>>>,
    <<<<"$", "1", ",", "0", "0", "0", ".", "0", "0">>, <<"1", "x">>>> }

-----------------------------------------------------------------------------
(* ParseAccountHistory *)

VARIABLES
  pc,          \* "start", "balance", "rows", "done"
  n,           \* rows.Count()
  fieldNames,  \* the header texts
  hasBalance,
  elems,       \* the balance elements ParseAccountBalance found
  balance,
  i,           \* the row loop's counter
  rows,        \* the cells of the data rows read so far, in source order
  history,
  err,         \* the error returned
  value,       \* the argument of a call of parseMoney on its own
  result       \* what that call returned

vars ==
  <<pc, n, fieldNames, hasBalance, elems, balance, i, rows, history, err,
    value, result>>

\* the variables of a call of parseMoney on its own
moneyVars == <<value, result>>

Init ==
  /\ pc = "start"
  /\ n = 0
  /\ fieldNames = <<>>
  /\ hasBalance = FALSE
  /\ elems = <<>>
  /\ balance = 0
  /\ i = 1
  /\ rows = <<>>
  /\ history = <<>>
  /\ err = Nil
  /\ value = <<>>
  /\ result = [val |-> 0, ok |-> FALSE]

\* a plausible slip: a table with only its header row is refused too
NoHistoryHeaderOnly(count) == count <= 1

\* "if n == 0"
NoHistory(count) == count = 0

\* the table has no row: "return history, errors.New(...)"
NoRows ==
  /\ pc = "start"
  /\ \E count \in 0..(MaxRows + 1) :
       /\ NoHistory(count)
       /\ n' = count
  /\ pc' = "done"
  /\ err' = ErrNoHistory
  /\ UNCHANGED <<fieldNames, hasBalance, elems, balance, i, rows, history>>
  /\ UNCHANGED moneyVars

\* otherwise: the header loop
ReadHeader ==
  /\ pc = "start"
  /\ \E count \in 0..(MaxRows + 1), h \in Headers :
       /\ ~NoHistory(count)
       /\ n' = count
       /\ fieldNames' = h
       /\ hasBalance' = HasBalance(h)
       /\ pc' = IF HasBalance(h) THEN "rows" ELSE "balance"
  /\ UNCHANGED <<elems, balance, i, rows, history, err>>
  /\ UNCHANGED moneyVars

\* a plausible slip: the error of ParseAccountBalance is logged, not returned
AfterSeedIgnoringError(e) == "rows"

\* "if balance, err = client.ParseAccountBalance(); err != nil { return }"
AfterSeed(e) == IF e = Nil THEN "rows" ELSE "done"

\* "if !hasBalance { balance, err = client.ParseAccountBalance() ... }"
SeedBalance ==
  /\ pc = "balance"
  /\ \E e \in BalancePages :
       LET r == ParseAccountBalance(e)
       IN  /\ elems' = e
           /\ balance' = r.val
           /\ err' = r.err
           /\ pc' = AfterSeed(r.err)
  /\ UNCHANGED <<n, fieldNames, hasBalance, i, rows, history>>
  /\ UNCHANGED moneyVars

\* one pass of "for i := 1; i < n; i++"
ParseRow ==
  /\ pc = "rows"
  /\ i < n
  /\ \E cells \in RowChoices(fieldNames) :
       LET record == WithBalance(BuildRecord(fieldNames, cells),
                                 hasBalance, balance)
       IN  /\ rows' = Append(rows, cells)
           /\ balance' = IF hasBalance THEN balance
                         ELSE NextBalance(balance, record)
           /\ history' = Save(record, history)
  /\ i' = i + 1
  /\ UNCHANGED <<pc, n, fieldNames, hasBalance, elems, err>>
  /\ UNCHANGED moneyVars

\* after the row loop: the index pass and "return history, nil"
Return ==
  /\ pc = "rows"
  /\ i >= n
  /\ history' = SetIndex(history, 1, 0, ZeroTime)
  /\ pc' = "done"
  /\ UNCHANGED <<n, fieldNames, hasBalance, elems, balance, i, rows, err>>
  /\ UNCHANGED moneyVars

Next == NoRows \/ ReadHeader \/ SeedBalance \/ ParseRow \/ Return

Spec == Init /\ [][Next]_vars

-----------------------------------------------------------------------------
(* parseMoney called on its own *)

MoneyChars == {"$", ",", ".", "-", "+", "0", "1", "2", "a", " "}

\* the texts of the model: every text of at most MaxLen characters, and the
\* amounts "$1,234.56", "12.00" and the word "abc"
MoneyInputs ==
  UNION { [1..len -> MoneyChars] : len \in 0..MaxLen }
  \cup { <<"$", "1", ",", "2", "3", "4", ".", "5", "6">>,
         <<"1", "2", ".", "0", "0">>,
         <<"a", "b", "c">> }

InitMoney ==
  /\ pc = "parseMoney"
  /\ value \in MoneyInputs
  /\ result = [val |-> 0, ok |-> FALSE]
  /\ n = 0
  /\ fieldNames = <<>>
  /\ hasBalance = FALSE
  /\ elems = <<>>
  /\ balance = 0
  /\ i = 1
  /\ rows = <<>>
  /\ history = <<>>
  /\ err = Nil

\* the call parseMoney(value)
ParseMoney ==
  /\ pc = "parseMoney"
  /\ result' = parseMoney(value)
  /\ pc' = "returned"
  /\ UNCHANGED <<n, fieldNames, hasBalance, elems, balance, i, rows, history,
                 err, value>>

NextMoney == ParseMoney

SpecMoney == InitMoney /\ [][NextMoney]_vars

-----------------------------------------------------------------------------
(* Properties of ParseAccountHistory *)

Done == pc = "done"

\* the call returned records and no error
Ok == Done /\ err = Nil

\* the cells of the data row that record k of the returned sequence was
\* built from: the last record comes from the first data row
SourceRow(k) == rows[Len(rows) + 1 - k]

\* the seed ParseAccountBalance returned
Seed == ParseAccountBalance(elems)

TextNA == <<"n", "/", "a">>
TextBad == <<"1", "x">>
TextAmount == <<"$", "1", ".", "5", "0">>
TextJan2 == <<"0", "1", "/", "0", "2", "/", "2", "0", "2", "3">>

\* C1: without a header cell containing "Balance", every adjacent pair of the
\* returned sequence satisfies
\* balance[i] = balance[i-1] + credit[i] - debit[i].
C1_RunningBalance ==
  (Ok /\ ~hasBalance) =>
    \A k \in 2..Len(history) :
      history[k].Balance =
        history[k - 1].Balance + history[k].Credit - history[k].Debit

\* C2: without a header cell containing "Balance" and with at least one data
\* row, the last returned record (the first data row) has the seed returned by
\* ParseAccountBalance as its balance, whatever its own debit and credit.
C2_LastIsSeed ==
  (Ok /\ ~hasBalance /\ Len(history) >= 1) =>
    history[Len(history)].Balance = Seed.val

C2_Witness ==
  /\ Ok /\ ~hasBalance
  /\ Len(history) >= 2
  /\ history[Len(history)].Debit > 0
  /\ history[Len(history)].Balance = 100000

\* C3 as stated: a table with only a header row, or with no row at all, makes
\* ParseAccountHistory fail with an error.
C3_EmptyFails == (Done /\ n <= 1) => err # Nil

\* C3 amended: a table without rows fails with the no-history error and no
\* records; a table with only its header row returns no records and no error,
\* unless no header cell contains "Balance" and ParseAccountBalance fails, in
\* which case that error is returned.
C3_HeaderOnly ==
  Done =>
    /\ n = 0 => (err = ErrNoHistory /\ history = <<>>)
    /\ n = 1 => /\ history = <<>>
                /\ err = IF hasBalance THEN Nil ELSE Seed.err

C3_Witness ==
  /\ Done /\ n = 1 /\ err = Nil /\ history = <<>>
  /\ fieldNames = <<KeyDate, KeyAccountBalance>>

\* C4 as stated: whenever ParseAccountHistory succeeds the returned sequence
\* is non-decreasing by date, whatever the order of the source rows.
C4_SortedByDate ==
  Ok => \A k \in 2..Len(history) : history[k - 1].Date <= history[k].Date

\* the dates of the data rows, in source order, never increase
SourceNewestFirst ==
  \A k \in 2..Len(rows) :
    BuildRecord(fieldNames, rows[k - 1]).Date >=
      BuildRecord(fieldNames, rows[k]).Date

\* C4 amended: the returned sequence holds the data rows in reverse source
\* order, each with the date its Date cell parses to or the zero date; so it is
\* non-decreasing by date exactly when those dates never increase from one
\* source row to the next.
C4_ReverseOfSource ==
  Ok =>
    /\ Len(history) = Len(rows)
    /\ \A k \in 1..Len(history) :
         history[k].Date = BuildRecord(fieldNames, SourceRow(k)).Date
    /\ (\A k \in 2..Len(history) : history[k - 1].Date <= history[k].Date)
         <=> SourceNewestFirst

C4_Witness ==
  /\ Ok /\ Len(history) >= 2
  /\ history[1].Date > ZeroTime
  /\ history[1].Date < history[2].Date
  /\ SourceNewestFirst

\* C5: in the returned sequence the Index values of every maximal run of
\* consecutive records with equal dates are 1, 2, 3, ... in output order, also
\* when the first record has the zero date.
C5_IndexLaw ==
  Ok =>
    \A k \in 1..Len(history) :
      history[k].Index =
        IF k > 1 /\ history[k - 1].Date = history[k].Date
          THEN history[k - 1].Index + 1
          ELSE 1

C5_Witness ==
  /\ Ok /\ Len(history) = 3
  /\ history[1].Date = ZeroTime /\ history[1].Index = 1
  /\ history[2].Date = ZeroTime /\ history[2].Index = 2
  /\ history[3].Date # ZeroTime /\ history[3].Index = 1

\* C6: whenever ParseAccountHistory succeeds, the number of returned records
\* is the number of rows of the table minus the header row, also when cells
\* fail to parse or have no handler.
C6_RowCount == Ok => (Len(history) = n - 1 /\ Len(rows) = n - 1)

C6_Witness ==
  /\ Ok /\ n = 3 /\ Len(history) = 2
  /\ fieldNames = <<KeyDate, KeyMemo, KeyCredit>>
  /\ rows[1] = <<TextNA, TextJan2, TextBad>>
  /\ rows[2] = <<>>

\* the value parsed from the cell of the first column whose header contains
\* "Balance"; 0 when the cell is blank or no amount
BalanceCell(cells) ==
  LET j == CHOOSE c \in 1..Len(fieldNames) :
             /\ Contains(fieldNames[c], KeyBalance)
             /\ \A b \in 1..(c - 1) : ~Contains(fieldNames[b], KeyBalance)
      r == parseMoney(TrimSpace(Text(cells, j)))
  IN  IF r.ok THEN r.val ELSE 0

\* C7: when a header cell contains "Balance", every returned record's Balance
\* is the value parsed from its own row's balance cell.
C7_BalanceVerbatim ==
  (Ok /\ hasBalance) =>
    \A k \in 1..Len(history) : history[k].Balance = BalanceCell(SourceRow(k))

\* C8: when no header cell contains "Balance" and ParseAccountBalance fails,
\* ParseAccountHistory returns that error and no record, and reads no data row.
C8_SeedFailure ==
  (n >= 1 /\ ~hasBalance /\ pc \in {"rows", "done"} /\ Seed.err # Nil) =>
    /\ pc = "done"
    /\ err = Seed.err
    /\ history = <<>>
    /\ rows = <<>>

C8_Witness ==
  /\ Done /\ n = 3 /\ ~hasBalance
  /\ fieldNames = <<KeyDebit, KeyCredit>>
  /\ elems # <<>> /\ err = ErrSyntax
  /\ history = <<>>

\* ParseAccountHistory got past the header and the seed
Parsed == Done /\ n >= 1 /\ (hasBalance \/ Seed.err = Nil)

\* the field a handler stores into
FieldOf ==
  ("DateFromString" :> "Date") @@
  ("TypeFromString" :> "Type") @@
  ("DescriptionFromString" :> "Description") @@
  ("DebitFromString" :> "Debit") @@
  ("CreditFromString" :> "Credit") @@
  ("BalanceFromString" :> "Balance")

\* column j is the only column with its header text
OnlyColumn(j) ==
  \A c \in 1..Len(fieldNames) : c # j => fieldNames[c] # fieldNames[j]

RECURSIVE KnownCells(_, _)
KnownCells(cells, j) ==
  IF j > Len(fieldNames) THEN <<>>
  ELSE IF Found(fieldNames[j])
    THEN <<Text(cells, j)>> \o KnownCells(cells, j + 1)
    ELSE KnownCells(cells, j + 1)

\* the record of the row as parsed from the table without the columns that
\* have no handler
WithoutUnknown(cells) ==
  BuildRecord(SelectSeq(fieldNames, Found), KnownCells(cells, 1))

\* C10: a column whose header text is no key of DefaultHandlers is skipped in
\* every row: the parse is not aborted and every record has the Date, Type,
\* Description, Debit and Credit (and, with a balance column, the Balance) the
\* row gives when the unknown columns are left out of the table.
C10_UnknownSkipped ==
  Parsed =>
    /\ err = Nil
    /\ \A k \in 1..Len(history) :
         LET other == WithoutUnknown(SourceRow(k))
         IN  /\ history[k].Date = other.Date
             /\ history[k].Type = other.Type
             /\ history[k].Description = other.Description
             /\ history[k].Debit = other.Debit
             /\ history[k].Credit = other.Credit
             /\ hasBalance => history[k].Balance = other.Balance

C10_Witness ==
  /\ Ok /\ fieldNames = <<KeyDate, KeyMemo, KeyCredit>>
  /\ Len(rows) >= 1
  /\ Text(rows[1], 2) = TextJan2
  /\ history[Len(history)].Date > DayNumber(2023, 1, 2)
  /\ history[Len(history)].Credit = 150
  /\ history[Len(history)].Description = <<>>

\* the state right after "balance, err = client.ParseAccountBalance()"
Seeded == n >= 1 /\ ~hasBalance /\ pc \in {"rows", "done"} /\ rows = <<>>

\* C11: ParseAccountBalance fails with the not-found error when no element
\* matches; otherwise it returns parseMoney of the text of the last matching
\* element only, and 0 with the parse error when that text is no amount.
C11_LastElement ==
  Seeded =>
    IF Len(elems) = 0
      THEN balance = 0 /\ err = ErrNoBalance
      ELSE LET r == parseMoney(elems[Len(elems)])
           IN  IF r.ok THEN balance = r.val /\ err = Nil
                       ELSE balance = 0 /\ err = ErrSyntax /\ pc = "done"

C11_Witness ==
  /\ Seeded /\ pc = "rows"
  /\ Len(elems) = 2
  /\ parseMoney(elems[1]).ok /\ parseMoney(elems[1]).val = 150
  /\ balance = 100000 /\ err = Nil

\* parseMoney has returned
Returned == pc = "returned"

\* the text without its '$', ',' and '.'
RECURSIVE Remainder(_)
Remainder(s) ==
  IF s = <<>> THEN <<>>
  ELSE IF Head(s) \in {"$", ",", "."} THEN Remainder(Tail(s))
  ELSE <<Head(s)>> \o Remainder(Tail(s))

DecimalDigits == {"0", "1", "2", "3", "4", "5", "6", "7", "8", "9"}

OnlyDigits(s) == s # <<>> /\ \A k \in 1..Len(s) : s[k] \in DecimalDigits

\* the number a text of decimal digits denotes, read from the left
RECURSIVE Decimal(_, _)
Decimal(s, acc) ==
  IF s = <<>> THEN acc
  ELSE Decimal(Tail(s),
               10 * acc + (CHOOSE d \in 0..9 : DigitVal[Head(s)] = d))

\* the examples of the claim
MoneyExamples ==
  /\ value = <<"$", "1", ",", "2", "3", "4", ".", "5", "6">>
       => (result.ok /\ result.val = 123456)
  /\ value = <<"1", "2", ".", "0", "0">> => (result.ok /\ result.val = 1200)
  /\ value = <<>> => ~result.ok
  /\ value = <<"a", "b", "c">> => ~result.ok

\* C12 as stated: parseMoney drops every '$', ',' and '.' and parses the rest
\* as a decimal integer; it fails when the rest is empty or has a non-digit.
C12_DigitsOnly ==
  Returned =>
    /\ MoneyExamples
    /\ IF OnlyDigits(Remainder(value))
         THEN result.ok /\ result.val = Decimal(Remainder(value), 0)
         ELSE ~result.ok

\* C12 amended: the rest may start with one '+' or '-', which gives the sign
\* of the result; parseMoney fails when what follows the sign is empty or has
\* a non-digit.
C12_SignedDigits ==
  Returned =>
    LET rest == Remainder(value)
        signed == rest # <<>> /\ Head(rest) \in {"+", "-"}
        digits == IF signed THEN Tail(rest) ELSE rest
    IN  /\ MoneyExamples
        /\ IF OnlyDigits(digits)
             THEN /\ result.ok
                  /\ result.val = IF signed /\ Head(rest) = "-"
                                    THEN 0 - Decimal(digits, 0)
                                    ELSE Decimal(digits, 0)
             ELSE ~result.ok /\ result.val = 0

C12_Witness ==
  /\ Returned
  /\ value = <<"$", "1", ",", "2", "3", "4", ".", "5", "6">>
  /\ result.ok /\ result.val = 123456

\* C13: every returned record has Debit >= 0 and Credit >= 0, whatever the
\* texts of the Debit and Credit cells (a leading minus sign included), and a
\* field is 0 when its column is absent or its cell is blank.
C13_NonNegative ==
  Ok =>
    \A k \in 1..Len(history) :
      /\ history[k].Debit >= 0
      /\ history[k].Credit >= 0
      /\ (\A j \in 1..Len(fieldNames) :
            fieldNames[j] = KeyDebit => TrimSpace(Text(SourceRow(k), j)) = <<>>)
           => history[k].Debit = 0
      /\ (\A j \in 1..Len(fieldNames) :
            fieldNames[j] = KeyCredit => TrimSpace(Text(SourceRow(k), j)) = <<>>)
           => history[k].Credit = 0

\* some header cell contains "Balance"
SomeBalanceHeader ==
  \E j \in 1..Len(fieldNames) :
    \E k \in 0..(Len(fieldNames[j]) - 7) :
      SubSeq(fieldNames[j], k + 1, k + 7) = <<"B", "a", "l", "a", "n", "c", "e">>

\* some header cell is "Account Balance"
SomeAccountBalanceHeader ==
  \E j \in 1..Len(fieldNames) :
    fieldNames[j] =
      <<"A", "c", "c", "o", "u", "n", "t", " ", "B", "a", "l", "a", "n", "c", "e">>

\* C14: once the header is read with a cell that contains "Balance",
\* ParseAccountBalance is never called and the accumulator stays 0 and is
\* stored in no record: a record's Balance is what its row's cells give, and
\* it is 0 in every record when no header cell is exactly "Account Balance".
C14_SubstringDetection ==
  (pc \in {"balance", "rows", "done"} /\ n >= 1 /\ SomeBalanceHeader) =>
    /\ pc # "balance"
    /\ elems = <<>> /\ balance = 0 /\ err = Nil
    /\ \A k \in 1..Len(history) :
         /\ history[k].Balance = BuildRecord(fieldNames, SourceRow(k)).Balance
         /\ ~SomeAccountBalanceHeader => history[k].Balance = 0

C14_Witness ==
  /\ Ok /\ fieldNames = <<KeyDate, KeyBalance>>
  /\ Len(history) = 2
  /\ Text(rows[1], 2) = TextAmount
  /\ history[2].Balance = 0 /\ history[1].Balance = 0
  /\ elems = <<>>

====
